---- MODULE Spec2Model ----
(***************************************************************************)
(* Eligibility dashboard generator (generate_dashboard.py): the run        *)
(* pipeline of main(), the two snapshot files it keeps                     *)
(* (active_indexers.json and active_indexers_previous_run.json), and the   *)
(* three passes of checkEligibility.                                       *)
(*                                                                         *)
(* Encoding of Python values:                                              *)
(*   - None (JSON null) is the integer None, the empty string "" of an     *)
(*     integer-or-"" field is the integer Blank; both are negative, every  *)
(*     word read from the chain is >= 0;                                   *)
(*   - a 32-byte result word is the integer int(word, 16);                 *)
(*   - an RPC answer is a record [kind, word], kind one of                 *)
(*       "exc"   the request raised (timeout, HTTP error, bad JSON),       *)
(*       "empty" no "result" key, or the result "0x",                      *)
(*       "word"  a result word;                                            *)
(*   - a file is a record [exists, metadata, indexers].                    *)
(***************************************************************************)
EXTENDS Integers, Sequences, FiniteSets, TLC

VARIABLES
    pc,            \* position of main(): which call comes next, or how it ended
    env,           \* the environment variables and indexers.txt, as main() sees them
    curFile,       \* active_indexers.json
    prevFile,      \* active_indexers_previous_run.json
    current_time,  \* the clock reading of checkEligibility (Pass 3), None outside it
    today,         \* the calendar day (a day number) of the run
    runs,          \* how many times main() has been started
    returns,       \* what each of the three functions returned in this run
    is_eligible_results,   \* Pass 1: the answer to each isEligible call
    status_changed_count,  \* the counter of updateStatusChangeDates
    activity_log,  \* activity_log_indexers_status_changes.json (telegram_notifier.py)
    left,          \* history: active_indexers.json as this run found it
    passes,        \* checkEligibility run pass by pass: its position and its calls
    subscribers_file,  \* subscribers_telegram.json
    bot,           \* telegram_bot.py: the handler that is running, if any
    notifier,      \* telegram_notifier.py: the run of send_notifications, if any
    committed,     \* per chat_id, the last add/remove_subscriber that was saved
    increments     \* how many times update_notification_stats has written its count

\* The variables of the bot and of the notifier.
telegramVars == <<subscribers_file, bot, notifier, committed, increments>>

\* The variables of generate_dashboard.py and the notifier's activity log.
dashboardVars == <<pc, env, curFile, prevFile, current_time, today, runs, returns,
                   is_eligible_results, status_changed_count, activity_log, left,
                   passes>>

vars == <<pc, env, curFile, prevFile, current_time, today, runs, returns,
          is_eligible_results, status_changed_count, activity_log, left,
          passes, telegramVars>>

-----------------------------------------------------------------------------
(* Bounds and value sets *)

\* The classifier's words: timestamps and periods are 0..MaxWord.
MaxWord == 2

\* The words of the multi-run pipeline are 0..MaxRunWord.
MaxRunWord == 1

\* main() is started at most MaxRuns times.
MaxRuns == 2

\* The runs of a store history: main() is started at most MaxHistoryRuns times.
MaxHistoryRuns == 3

\* The chats that talk to the bot are 1..MaxChats.
MaxChats == 2

\* At most MaxBotCalls /subscribe and /unsubscribe handlers are started.
MaxBotCalls == 4

\* send_notifications is run at most MaxNotifierRuns times.
MaxNotifierRuns == 2

None == -1

Blank == -2

Words == 0..MaxWord

Clock == 0..(2 * MaxWord)

RunWords == 0..MaxRunWord

RunClock == 0..(2 * MaxRunWord)

\* The words and the clock readings of a store history: enough for a record to
\* be eligible, in grace or ineligible in any run.
HistoryWords == {0, MaxRunWord}

HistoryClock == {0, 2 * MaxRunWord}

\* The timestamps, the period and the clock readings of the reference scenario
\* (the second clock reading is the end of its grace window).
ScenarioTimes == {0, 1699000000, 1699950000, 1700000000}

ScenarioPeriods == {86400}

ScenarioClock == {1700010000, 1700036400}

\* The indexer ids the network subgraph can return (lowercase hex).
RegistryIds == <<"0xa1", "0xb2">>

\* The non-empty id lists a registry query can return.
RegistryLists == {<<RegistryIds[1]>>, <<RegistryIds[2]>>, RegistryIds}

Statuses == {"eligible", "grace", "ineligible"}

\* The chat_ids of the chats that talk to the bot.
ChatIds == 1..MaxChats

\* The answers an eth_call can give, with its words drawn from W.
RpcResponses(W) ==
    {[kind |-> "exc", word |-> 0], [kind |-> "empty", word |-> 0]}
        \cup {[kind |-> "word", word |-> w] : w \in W}

-----------------------------------------------------------------------------
(* Files *)

NoFile == [exists |-> FALSE,
           metadata |-> [last_oracle_update_time |-> None, eligibility_period |-> None],
           indexers |-> <<>>]

\* A file whose write was cut short: it exists and json.load raises on it. No
\* complete file lists zero indexers (retrieveActiveIndexers writes none).
Torn == [exists |-> TRUE,
         metadata |-> [last_oracle_update_time |-> None, eligibility_period |-> None],
         indexers |-> <<>>]

\* The notifier's activity log when the file is missing (load_activity_log
\* returns None).
NoLog == [exists |-> FALSE, status_changes |-> <<>>]

\* Python's truth value of an Optional[int].
Truthy(x) == x # None /\ x # 0

\* str.lower() on the addresses of the model.
Lower(a) ==
    CASE a = "0xA1" -> "0xa1"
      [] a = "0xB2" -> "0xb2"
      [] OTHER -> a

\* get_oracle_update_time: the word as an integer, None on any failure.
get_oracle_update_time(resp) == IF resp.kind = "word" THEN resp.word ELSE None

\* get_eligibility_period: the word as an integer, None on any failure.
get_eligibility_period(resp) == IF resp.kind = "word" THEN resp.word ELSE None

\* The record retrieveActiveIndexers writes for one registry entry.
FreshRecord(address) ==
    [address |-> address,
     is_eligible |-> FALSE,
     status |-> "",
     eligible_until |-> Blank,
     eligible_until_readable |-> <<>>,
     eligibility_renewal_time |-> Blank,
     last_status_change_date |-> Blank]

\* output_data of retrieveActiveIndexers.
FreshData(ids, lout, period) ==
    [exists |-> TRUE,
     metadata |-> [last_oracle_update_time |-> lout, eligibility_period |-> period],
     indexers |-> [i \in 1..Len(ids) |-> FreshRecord(ids[i])]]

-----------------------------------------------------------------------------
(* checkEligibility, per record *)

\* Pass 1 failing open: a record whose call raised counts as eligible.
Pass1FailOpen(rec, resp) ==
    IF rec.address = "" THEN rec
    ELSE [rec EXCEPT !.is_eligible =
            (resp.kind = "exc" \/ (resp.kind = "word" /\ resp.word # 0))]

\* Pass 1: is_eligible from the isEligible(address) call.
Pass1(rec, resp) ==
    IF rec.address = "" THEN rec
    ELSE [rec EXCEPT !.is_eligible = (resp.kind = "word" /\ resp.word # 0)]

\* Pass 2 without the reset of the ineligible: their renewal time stays what the
\* file held.
Pass2KeepsRenewal(rec, resp) ==
    IF ~rec.is_eligible THEN rec
    ELSE IF rec.address = "" THEN rec
    ELSE [rec EXCEPT !.eligibility_renewal_time =
                        IF resp.kind = "word" THEN resp.word ELSE 0]

\* Pass 2: eligibility_renewal_time, read only for the eligible.
Pass2(rec, resp) ==
    IF ~rec.is_eligible THEN [rec EXCEPT !.eligibility_renewal_time = 0]
    ELSE IF rec.address = "" THEN rec
    ELSE [rec EXCEPT !.eligibility_renewal_time =
                        IF resp.kind = "word" THEN resp.word ELSE 0]

\* strftime("%-d-%b-%Y at %H:%M:%S UTC") of a timestamp.
Readable(t) == <<"UTC", t>>

\* The first branch without its test that last_oracle_update_time is set.
IsEligibleBranchNoGuard(renewal, lout) == renewal = lout

\* The first branch with > for ==.
IsEligibleBranchNewer(renewal, lout) == Truthy(lout) /\ renewal > lout

\* The first branch of Pass 3: the record is eligible.
IsEligibleBranch(renewal, lout) == Truthy(lout) /\ renewal = lout

\* The second branch of Pass 3: the grace window applies.
IsGraceBranch(renewal, lout, period) ==
    renewal # lout /\ Truthy(period) /\ renewal > 0

\* The end of the window taken as its last second.
GracePeriodEndInclusive(renewal, period) == renewal + period - 1

\* grace_period_end = eligibility_renewal_time + eligibility_period
GracePeriodEnd(renewal, period) == renewal + period

\* The window test with <= for <.
InGraceInclusive(now, grace_period_end) == now <= grace_period_end

\* current_time < grace_period_end
InGrace(now, grace_period_end) == now < grace_period_end

\* The closed window without the reset of eligible_until.
GraceExpiredKeepsUntil(rec) == [rec EXCEPT !.status = "ineligible"]

\* What Pass 3 writes when the grace window has closed.
GraceExpired(rec) ==
    [rec EXCEPT !.status = "ineligible",
                !.eligible_until = Blank,
                !.eligible_until_readable = <<>>]

\* Pass 3: status, eligible_until and eligible_until_readable of one record.
Pass3(rec, lout, period, now) ==
    LET renewal == rec.eligibility_renewal_time IN
    IF IsEligibleBranch(renewal, lout)
    THEN [rec EXCEPT !.status = "eligible",
                     !.eligible_until = Blank,
                     !.eligible_until_readable = <<>>]
    ELSE IF IsGraceBranch(renewal, lout, period)
    THEN LET grace_period_end == GracePeriodEnd(renewal, period) IN
         IF InGrace(now, grace_period_end)
         THEN [rec EXCEPT !.status = "grace",
                          !.eligible_until = grace_period_end,
                          !.eligible_until_readable = Readable(grace_period_end)]
         ELSE GraceExpired(rec)
    ELSE [rec EXCEPT !.status = "ineligible",
                     !.eligible_until = Blank,
                     !.eligible_until_readable = <<>>]

\* The three passes over the file's data: elig[i] and renew[i] are the answers
\* to the two calls for the i-th indexer, now the clock read before Pass 3.
Classified(data, elig, renew, now) ==
    [data EXCEPT !.indexers =
        [i \in 1..Len(data.indexers) |->
            Pass3(Pass2(Pass1(data.indexers[i], elig[i]), renew[i]),
                  data.metadata.last_oracle_update_time,
                  data.metadata.eligibility_period,
                  now)]]

-----------------------------------------------------------------------------
(* updateStatusChangeDates, per record *)

\* previous_indexers_map: the record kept for a lowercase address is the last
\* one of the previous file with that address.
PrevIndex(prev, address) ==
    {i \in 1..Len(prev.indexers) :
        /\ Lower(prev.indexers[i].address) = address
        /\ \A j \in (i + 1)..Len(prev.indexers) :
              Lower(prev.indexers[j].address) # address}

\* The date without the else of line 841: a record found in the previous file
\* is stamped with the current date whether its status differs or not.
StatusChangeDateAlwaysStamped(rec, prev, current_date) ==
    LET found == IF prev.exists THEN PrevIndex(prev, Lower(rec.address)) ELSE {}
    IN  IF found # {} THEN current_date ELSE Blank

\* The date when a new address is treated as a change: a record that is not in
\* the previous file is stamped with the current date.
StatusChangeDateStampsNew(rec, prev, current_date) ==
    LET found == IF prev.exists THEN PrevIndex(prev, Lower(rec.address)) ELSE {}
    IN  IF found # {}
        THEN LET previous_indexer == prev.indexers[CHOOSE i \in found : TRUE] IN
             IF rec.status # previous_indexer.status
             THEN current_date
             ELSE previous_indexer.last_status_change_date
        ELSE current_date

\* last_status_change_date of one current record.
StatusChangeDate(rec, prev, current_date) ==
    LET address == Lower(rec.address)
        found == IF prev.exists THEN PrevIndex(prev, address) ELSE {}
    IN  IF found # {}
        THEN LET previous_indexer == prev.indexers[CHOOSE i \in found : TRUE] IN
             IF rec.status # previous_indexer.status
             THEN current_date
             ELSE previous_indexer.last_status_change_date
        ELSE Blank

\* The test without the comparison of the statuses: every record found in the
\* previous file's map counts as changed.
StatusChangedWhenFound(rec, prev) ==
    LET found == IF prev.exists THEN PrevIndex(prev, Lower(rec.address)) ELSE {}
    IN  found # {}

\* The test of line 837 for one current record: it is in the previous file's
\* map with another status.
StatusChanged(rec, prev) ==
    LET found == IF prev.exists THEN PrevIndex(prev, Lower(rec.address)) ELSE {}
    IN  /\ found # {}
        /\ rec.status # prev.indexers[CHOOSE i \in found : TRUE].status

\* status_changed_count when the loop over the current indexers ends.
StatusChangedCount(cur, prev) ==
    Cardinality({i \in 1..Len(cur.indexers) : StatusChanged(cur.indexers[i], prev)})

\* The comparison taking, for an unchanged status, the previous file's whole
\* record instead of its date.
DatesUpdatedFromPreviousRecord(cur, prev, current_date) ==
    [cur EXCEPT !.indexers =
        [i \in 1..Len(cur.indexers) |->
            LET rec == cur.indexers[i]
                found == IF prev.exists THEN PrevIndex(prev, Lower(rec.address))
                         ELSE {}
            IN  IF found # {} /\ ~StatusChanged(rec, prev)
                THEN prev.indexers[CHOOSE j \in found : TRUE]
                ELSE [rec EXCEPT !.last_status_change_date =
                                    StatusChangeDate(rec, prev, current_date)]]]

\* The current file's data after the comparison with the previous file.
DatesUpdated(cur, prev, current_date) ==
    [cur EXCEPT !.indexers =
        [i \in 1..Len(cur.indexers) |->
            [cur.indexers[i] EXCEPT !.last_status_change_date =
                StatusChangeDate(cur.indexers[i], prev, current_date)]]]

-----------------------------------------------------------------------------
(* The consumers of the current file *)

\* sum(1 for i in indexers if i.get("status") == status): the counters of
\* generate_html_dashboard and of format_oracle_update_message.
StatusCount(indexers, status) ==
    Cardinality({i \in 1..Len(indexers) : indexers[i].status = status})

\* eligible_count + grace_count + ineligible_count.
StatusCountsSum(indexers) ==
    StatusCount(indexers, "eligible") + StatusCount(indexers, "grace")
        + StatusCount(indexers, "ineligible")

\* renderIndexerTable handing over the records as the file holds them.
renderIndexerTableAsPersisted(file) ==
    IF ~file.exists \/ Len(file.indexers) = 0
    THEN <<>>
    ELSE file.indexers

\* renderIndexerTable: the records handed to the dashboard, is_eligible set
\* from the status; no record when the file is missing or does not parse.
renderIndexerTable(file) ==
    IF ~file.exists \/ Len(file.indexers) = 0
    THEN <<>>
    ELSE [i \in 1..Len(file.indexers) |->
            [file.indexers[i] EXCEPT
                !.is_eligible = (file.indexers[i].status \in {"eligible", "grace"})]]

-----------------------------------------------------------------------------
(* main() *)

\* What main() reads from the environment: whether each variable is set (and
\* GRAPH_API_KEY is not the placeholder), and whether indexers.txt has entries.
Envs ==
    [graph_api_key : BOOLEAN, contract_address : BOOLEAN, api_key : BOOLEAN,
     quicknode_url : BOOLEAN, indexers_txt : BOOLEAN]

\* No process is running.
NoEnv ==
    [graph_api_key |-> FALSE, contract_address |-> FALSE, api_key |-> FALSE,
     quicknode_url |-> FALSE, indexers_txt |-> FALSE]

\* The ways a run of main() ends.
Ended == {"returned_no_indexers", "returned_missing_vars", "done"}

\* No function has been called yet in this run.
NoReturns ==
    [retrieveActiveIndexers |-> "none", checkEligibility |-> "none",
     updateStatusChangeDates |-> "none"]

\* main() starts, for at most limit times: the environment is loaded. The wall
\* clock shows the day of the run before or the next one; a run reads the date
\* once (in updateStatusChangeDates), so its day is fixed here.
\* left is a history variable: found is the file a specification remembers
\* for the run, the current file or (nothing remembered) NoFile.
MainStarts(limit, found) ==
    /\ pc \in {"idle", "killed"} \cup Ended
    /\ runs < limit
    /\ runs' = runs + 1
    /\ env' \in Envs
    /\ pc' = "retrieve"
    /\ current_time' = None
    /\ today' \in IF runs = 0 THEN {today} ELSE {today, today + 1}
    /\ returns' = NoReturns
    /\ is_eligible_results' = <<>>
    /\ status_changed_count' = None
    /\ left' = found
    /\ UNCHANGED <<curFile, prevFile, activity_log, passes, telegramVars>>

MainStart == MainStarts(MaxRuns, NoFile)

\* The same start, remembering the current file as the run before left it.
MainStartRemembering == MainStarts(MaxRuns, curFile)

\* retrieveActiveIndexers, from the registry's answer on: the two contract
\* reads, the backup of the existing file, the write of the new one.
retrieveActiveIndexers(T, P) ==
    \E ids \in RegistryLists, r1 \in RpcResponses(T), r2 \in RpcResponses(P),
       copy_ok \in BOOLEAN :
        LET reads == env.contract_address /\ env.quicknode_url
            lout == IF reads THEN get_oracle_update_time(r1) ELSE None
            period == IF reads THEN get_eligibility_period(r2) ELSE None
        IN  /\ prevFile' = IF curFile.exists /\ copy_ok THEN curFile ELSE prevFile
            /\ curFile' = FreshData(ids, lout, period)
            /\ returns' = [returns EXCEPT !.retrieveActiveIndexers = "True"]

\* main(), lines 2072-2088: the registry is queried when GRAPH_API_KEY is set;
\* a failed request, a GraphQL error or an empty list writes nothing.
MainRetrieve(T, P) ==
    /\ pc = "retrieve"
    /\ IF env.graph_api_key
       THEN \E ok \in BOOLEAN :
               IF ok THEN retrieveActiveIndexers(T, P)
               ELSE /\ returns' = [returns EXCEPT !.retrieveActiveIndexers = "False"]
                    /\ UNCHANGED <<curFile, prevFile>>
       ELSE UNCHANGED <<curFile, prevFile, returns>>
    /\ pc' = "validate"
    /\ UNCHANGED <<env, current_time, today, runs, is_eligible_results,
                   status_changed_count, activity_log, left, passes, telegramVars>>

\* The process is killed inside retrieveActiveIndexers, in the backup-then-write
\* lines 517-528: after shutil.copy and before open(output_file, 'w'), or
\* after the open has truncated the file and before json.dump has finished.
MainKilledInRetrieve ==
    /\ pc = "retrieve"
    /\ env.graph_api_key
    /\ \E copy_ok \in BOOLEAN, in_write \in BOOLEAN :
          /\ prevFile' = IF curFile.exists /\ copy_ok THEN curFile ELSE prevFile
          /\ curFile' = IF in_write THEN Torn ELSE curFile
    /\ pc' = "killed"
    /\ env' = NoEnv
    /\ left' = NoFile
    /\ UNCHANGED <<current_time, today, runs, returns, is_eligible_results,
                   status_changed_count, activity_log, passes, telegramVars>>

\* main(), lines 2090-2117: indexers.txt is read and the required variables
\* are checked; either can end the run. This is the last read of env that can
\* find a variable unset.
MainValidate ==
    /\ pc = "validate"
    /\ IF ~env.indexers_txt
       THEN pc' = "returned_no_indexers" /\ env' = NoEnv /\ left' = NoFile
       ELSE IF ~env.contract_address \/ ~env.api_key \/ ~env.quicknode_url
       THEN pc' = "returned_missing_vars" /\ env' = NoEnv /\ left' = NoFile
       ELSE pc' = "check" /\ env' = NoEnv /\ left' = left
    /\ UNCHANGED <<curFile, prevFile, current_time, today, runs, returns,
                   is_eligible_results, status_changed_count, activity_log, passes, telegramVars>>

\* The answer to the getEligibilityRenewalTime call of Pass 2, which is made
\* only for a record Pass 1 left eligible (and that has an address).
NoCall == [kind |-> "none", word |-> 0]

RenewalAnswers(data, elig, W) ==
    {renew \in [1..Len(data.indexers) -> RpcResponses(W) \cup {NoCall}] :
        \A i \in 1..Len(data.indexers) :
            (renew[i] = NoCall) <=>
                (~Pass1(data.indexers[i], elig[i]).is_eligible
                    \/ data.indexers[i].address = "")}

\* checkEligibility is not running.
NoPasses == [pass |-> 0, i |-> 0, indexers |-> <<>>, elig |-> <<>>, calls |-> <<>>]

\* checkEligibility: nothing is done when the file is missing, cannot be
\* parsed or lists no indexer; otherwise the three passes run and the file is
\* rewritten.
checkEligibility(W, C) ==
    IF ~curFile.exists \/ Len(curFile.indexers) = 0
    THEN /\ returns' = [returns EXCEPT !.checkEligibility = "False"]
         /\ UNCHANGED <<curFile, current_time, is_eligible_results>>
    ELSE \E elig \in [1..Len(curFile.indexers) -> RpcResponses(W)], now \in C :
            \E renew \in RenewalAnswers(curFile, elig, W) :
                /\ curFile' = Classified(curFile, elig, renew, now)
                /\ current_time' = now
                /\ is_eligible_results' = elig
                /\ returns' = [returns EXCEPT !.checkEligibility = "True"]

\* main(), line 2121.
MainCheckEligibility(W, C) ==
    /\ pc = "check"
    /\ checkEligibility(W, C)
    /\ pc' = "update"
    /\ UNCHANGED <<env, prevFile, today, runs, status_changed_count, activity_log,
                   left, passes, telegramVars>>

\* Pass 2 calling for every record that has an address.
NeedsRenewalCallWithAddress(rec) == rec.address # ""

\* Pass 2 calls getEligibilityRenewalTime for this record: lines 650-657.
NeedsRenewalCall(rec) == rec.is_eligible /\ rec.address # ""

\* What the loop of a pass does to its position after record i.
NextPosition(p) ==
    IF p.i = Len(p.indexers) THEN [pass |-> p.pass + 1, i |-> 1]
    ELSE [pass |-> p.pass, i |-> p.i + 1]

\* checkEligibility pass by pass. It loads the file (lines 546-572): nothing
\* is done when the file is missing, cannot be parsed or lists no indexer.
CheckLoads ==
    /\ pc = "check"
    /\ passes.pass = 0
    /\ IF ~curFile.exists \/ Len(curFile.indexers) = 0
       THEN /\ returns' = [returns EXCEPT !.checkEligibility = "False"]
            /\ pc' = "update"
            /\ UNCHANGED passes
       ELSE /\ passes' = [pass |-> 1, i |-> 1, indexers |-> curFile.indexers,
                          elig |-> <<>>, calls |-> <<>>]
            /\ UNCHANGED <<pc, returns>>
    /\ UNCHANGED <<env, curFile, prevFile, current_time, today, runs,
                   is_eligible_results, status_changed_count, activity_log, left,
                   telegramVars>>

\* One iteration of the loop of Pass 1, lines 584-632: the isEligible call of
\* record i and its answer.
CheckPass1(W) ==
    /\ pc = "check"
    /\ passes.pass = 1
    /\ LET rec == passes.indexers[passes.i] IN
       \E resp \in RpcResponses(W) :
          passes' = [passes EXCEPT
                        !.indexers[passes.i] = Pass1(rec, resp),
                        !.elig = Append(@, resp),
                        !.calls = IF rec.address = "" THEN @
                                  ELSE Append(@, [fn |-> "isEligible",
                                                  i |-> passes.i]),
                        !.i = NextPosition(passes).i,
                        !.pass = NextPosition(passes).pass]
    /\ UNCHANGED <<pc, env, curFile, prevFile, current_time, today, runs, returns,
                   is_eligible_results, status_changed_count, activity_log, left,
                   telegramVars>>

\* One iteration of the loop of Pass 2, lines 648-695: the
\* getEligibilityRenewalTime call of record i, if it is made, and its answer.
CheckPass2(W) ==
    /\ pc = "check"
    /\ passes.pass = 2
    /\ LET rec == passes.indexers[passes.i] IN
       \E resp \in IF NeedsRenewalCall(rec) THEN RpcResponses(W) ELSE {NoCall} :
          passes' = [passes EXCEPT
                        !.indexers[passes.i] = Pass2(rec, resp),
                        !.calls = IF NeedsRenewalCall(rec)
                                  THEN Append(@, [fn |-> "getEligibilityRenewalTime",
                                                  i |-> passes.i])
                                  ELSE @,
                        !.i = NextPosition(passes).i,
                        !.pass = NextPosition(passes).pass]
    /\ UNCHANGED <<pc, env, curFile, prevFile, current_time, today, runs, returns,
                   is_eligible_results, status_changed_count, activity_log, left,
                   telegramVars>>

\* Pass 3 and the write of the file, lines 705-766, and main()'s line 2121.
CheckPass3(C) ==
    /\ pc = "check"
    /\ passes.pass = 3
    /\ \E now \in C :
          /\ curFile' = [curFile EXCEPT !.indexers =
                            [i \in 1..Len(passes.indexers) |->
                                Pass3(passes.indexers[i],
                                      curFile.metadata.last_oracle_update_time,
                                      curFile.metadata.eligibility_period,
                                      now)]]
          /\ current_time' = now
    /\ is_eligible_results' = passes.elig
    /\ returns' = [returns EXCEPT !.checkEligibility = "True"]
    /\ passes' = NoPasses
    /\ pc' = "update"
    /\ UNCHANGED <<env, prevFile, today, runs, status_changed_count, activity_log,
                   left, telegramVars>>

\* updateStatusChangeDates: the current file gets its dates from the
\* comparison with the previous file. Nothing is written when the current file
\* is missing or lists no indexer, or when either file cannot be parsed.
updateStatusChangeDates ==
    IF ~curFile.exists \/ Len(curFile.indexers) = 0 \/ prevFile = Torn
    THEN /\ returns' = [returns EXCEPT !.updateStatusChangeDates = "False"]
         /\ UNCHANGED <<curFile, status_changed_count>>
    ELSE /\ curFile' = DatesUpdated(curFile, prevFile, today)
         /\ status_changed_count' = StatusChangedCount(curFile, prevFile)
         /\ returns' = [returns EXCEPT !.updateStatusChangeDates = "True"]

\* main(), line 2125.
MainUpdateStatusChangeDates ==
    /\ pc = "update"
    /\ updateStatusChangeDates
    /\ pc' = "generate"
    /\ current_time' = None
    /\ is_eligible_results' = <<>>
    /\ left' = NoFile
    /\ UNCHANGED <<env, prevFile, today, runs, activity_log, passes, telegramVars>>

\* main(), lines 2128-2135: index.html is written and the run ends.
MainGenerate ==
    /\ pc = "generate"
    /\ pc' = "done"
    /\ env' = env
    /\ UNCHANGED <<curFile, prevFile, current_time, today, runs, returns,
                   is_eligible_results, status_changed_count, activity_log, left,
                   passes, telegramVars>>

-----------------------------------------------------------------------------
(* subscribers_telegram.json and telegram_bot.py *)

\* What load_subscribers of the bot returns when the file is missing or cannot
\* be parsed.
NoSubscribers ==
    [subscribers |-> <<>>,
     stats |-> [total_subscribers |-> 0, total_notifications_sent |-> 0]]

\* subscribers_telegram.json is missing.
MissingSubscribersFile == [exists |-> FALSE, valid |-> FALSE, data |-> NoSubscribers]

\* subscribers_telegram.json exists and is empty: json.load raises on it.
EmptySubscribersFile == [exists |-> TRUE, valid |-> FALSE, data |-> NoSubscribers]

\* telegram_bot.load_subscribers.
bot_load_subscribers(file) ==
    IF file.exists /\ file.valid THEN file.data ELSE NoSubscribers

\* sum(1 for s in data["subscribers"] if s.get("active", False)).
ActiveCount(subscribers) ==
    Cardinality({i \in 1..Len(subscribers) : subscribers[i].active})

\* The first index the loop of add_subscriber stops at: the first record with
\* the chat_id (0 when there is none).
FirstRecord(subscribers, chat_id) ==
    LET found == {i \in 1..Len(subscribers) : subscribers[i].chat_id = chat_id}
    IN  IF found = {} THEN 0
        ELSE CHOOSE i \in found : \A j \in found : i <= j

\* The first index the loop of remove_subscriber stops at: the first active
\* record with the chat_id (0 when there is none).
FirstActiveRecord(subscribers, chat_id) ==
    LET found == {i \in 1..Len(subscribers) :
                    subscribers[i].chat_id = chat_id /\ subscribers[i].active}
    IN  IF found = {} THEN 0
        ELSE CHOOSE i \in found : \A j \in found : i <= j

\* data with its subscribers replaced and total_subscribers counting every
\* record.
WithSubscribersCountingAll(data, subscribers) ==
    [data EXCEPT !.subscribers = subscribers,
                 !.stats.total_subscribers = Len(subscribers)]

\* data with its subscribers replaced and total_subscribers recomputed.
WithSubscribers(data, subscribers) ==
    [data EXCEPT !.subscribers = subscribers,
                 !.stats.total_subscribers = ActiveCount(subscribers)]

\* add_subscriber: what it returns on the data it loaded.
add_subscriber_returns(data, chat_id) ==
    LET i == FirstRecord(data.subscribers, chat_id)
    IN  i = 0 \/ ~data.subscribers[i].active

\* add_subscriber appending a record whenever it returns True.
add_subscriber_data_appending(data, chat_id) ==
    WithSubscribers(data,
        Append(data.subscribers, [chat_id |-> chat_id, active |-> TRUE]))

\* add_subscriber: the data it hands to save_subscribers when it returns True.
add_subscriber_data(data, chat_id) ==
    LET i == FirstRecord(data.subscribers, chat_id)
    IN  IF i = 0
        THEN WithSubscribers(data,
                Append(data.subscribers, [chat_id |-> chat_id, active |-> TRUE]))
        ELSE WithSubscribers(data, [data.subscribers EXCEPT ![i].active = TRUE])

\* remove_subscriber: what it returns on the data it loaded.
remove_subscriber_returns(data, chat_id) ==
    FirstActiveRecord(data.subscribers, chat_id) # 0

\* remove_subscriber: the data it hands to save_subscribers when it returns True.
remove_subscriber_data(data, chat_id) ==
    LET i == FirstActiveRecord(data.subscribers, chat_id)
    IN  WithSubscribers(data, [data.subscribers EXCEPT ![i].active = FALSE])

\* save_subscribers: the file after it, written or (open raised) left as it was.
save_subscribers(file, data, ok) ==
    IF ok THEN [exists |-> TRUE, valid |-> TRUE, data |-> data] ELSE file

\* No handler of the bot is running; calls counts the handlers started so far.
BotIdle(calls, returned) ==
    [pc |-> "idle", op |-> "none", chat_id |-> 0, data |-> NoSubscribers,
     returned |-> returned, calls |-> calls]

\* A /subscribe or /unsubscribe handler starts (at most limit of them) for one
\* of the chats: add_subscriber or remove_subscriber loads the file.
BotLoads(limit, chats) ==
    /\ bot.pc = "idle"
    /\ bot.calls < limit
    /\ \E op \in {"add_subscriber", "remove_subscriber"}, chat_id \in chats :
          bot' = [pc |-> "loaded", op |-> op, chat_id |-> chat_id,
                  data |-> bot_load_subscribers(subscribers_file),
                  returned |-> "none", calls |-> bot.calls + 1]
    /\ UNCHANGED <<subscribers_file, notifier, committed, increments, dashboardVars>>

\* The handler goes on from the data it loaded: add_subscriber or
\* remove_subscriber changes it, saves it and returns True, or returns False
\* without saving. What save_subscribers returns is not looked at.
BotSaves ==
    /\ bot.pc = "loaded"
    /\ LET add == bot.op = "add_subscriber"
           ok == IF add THEN add_subscriber_returns(bot.data, bot.chat_id)
                 ELSE remove_subscriber_returns(bot.data, bot.chat_id)
           data == IF add THEN add_subscriber_data(bot.data, bot.chat_id)
                   ELSE remove_subscriber_data(bot.data, bot.chat_id)
       IN  IF ok
           THEN /\ \E saved \in BOOLEAN :
                      /\ subscribers_file'
                            = save_subscribers(subscribers_file, data, saved)
                      /\ committed' = IF saved
                                      THEN [committed EXCEPT ![bot.chat_id] = bot.op]
                                      ELSE committed
                /\ bot' = BotIdle(bot.calls, "True")
           ELSE /\ bot' = BotIdle(bot.calls, "False")
                /\ UNCHANGED <<subscribers_file, committed>>
    /\ UNCHANGED <<notifier, increments, dashboardVars>>

-----------------------------------------------------------------------------
(* telegram_notifier.py *)

IsActive(subscriber) == subscriber.active

\* telegram_notifier.load_subscribers: the active records, in file order.
notifier_load_subscribers(file) ==
    IF file.exists /\ file.valid
    THEN SelectSeq(file.data.subscribers, IsActive)
    ELSE <<>>

\* load_active_indexers returns data (not None): the file is there and parses.
IndexersLoaded == curFile.exists /\ curFile # Torn

\* detailed_message is built: the activity log is there and lists changes.
HasDetailedMessage == activity_log.exists /\ Len(activity_log.status_changes) > 0

\* What awaiting bot.send_message can do: deliver, raise a TelegramError, or
\* raise another exception.
SendOutcomes == {"sent", "TelegramError", "Exception"}

\* No run of the notifier is going on; runs counts the runs started so far.
NotifierIdle(n, returned) ==
    [pc |-> "idle", subscribers |-> <<>>, i |-> 0, success_count |-> 0,
     fail_count |-> 0, detailed |-> FALSE, attempted |-> {},
     data |-> NoSubscribers, returned |-> returned, runs |-> n]

\* send_notifications_async up to the loop (at most limit runs): the token, the
\* active subscribers and the indexers data are loaded; without any of them
\* the run returns False.
NotifierStarts(limit) ==
    /\ notifier.pc = "idle"
    /\ notifier.runs < limit
    /\ \E token \in BOOLEAN :
          LET subscribers == notifier_load_subscribers(subscribers_file)
          IN  IF ~token \/ subscribers = <<>> \/ ~IndexersLoaded
              THEN notifier' = NotifierIdle(notifier.runs + 1, "False")
              ELSE notifier' =
                      [NotifierIdle(notifier.runs + 1, "none") EXCEPT
                          !.pc = "sending",
                          !.subscribers = subscribers,
                          !.i = 1,
                          !.detailed = HasDetailedMessage]
    /\ UNCHANGED <<subscribers_file, bot, committed, increments, dashboardVars>>

\* The two counters after the loop body for one subscriber: first is the
\* outcome of sending the oracle message, second the outcome of sending the
\* detailed message (sent only after the first was delivered, and when there
\* is one).
CountsAfter(n, first, second) ==
    IF first = "sent"
    THEN IF n.detailed /\ second = "Exception"
         THEN [success_count |-> n.success_count + 1, fail_count |-> n.fail_count + 1]
         ELSE [success_count |-> n.success_count + 1, fail_count |-> n.fail_count]
    ELSE [success_count |-> n.success_count, fail_count |-> n.fail_count + 1]

\* One iteration of the loop over the subscribers (lines 271-294).
NotifierSends ==
    /\ notifier.pc = "sending"
    /\ notifier.i <= Len(notifier.subscribers)
    /\ LET chat_id == notifier.subscribers[notifier.i].chat_id
       IN  IF chat_id = 0
           THEN notifier' = [notifier EXCEPT !.i = @ + 1]
           ELSE \E first \in SendOutcomes, second \in SendOutcomes :
                   LET counts == CountsAfter(notifier, first, second)
                   IN  notifier' =
                          [notifier EXCEPT
                              !.i = @ + 1,
                              !.attempted = @ \cup {chat_id},
                              !.success_count = counts.success_count,
                              !.fail_count = counts.fail_count]
    /\ UNCHANGED <<subscribers_file, bot, committed, increments, dashboardVars>>

\* The loop has ended (lines 296-302). With no success the run returns False;
\* otherwise update_notification_stats reads the file (lines 77-82); when the
\* file is missing or does not parse nothing is written and the run returns
\* True.
NotifierReadsStats ==
    /\ notifier.pc = "sending"
    /\ notifier.i > Len(notifier.subscribers)
    /\ IF notifier.success_count = 0
       THEN notifier' = [notifier EXCEPT !.pc = "idle", !.returned = "False"]
       ELSE IF ~subscribers_file.exists \/ ~subscribers_file.valid
       THEN notifier' = [notifier EXCEPT !.pc = "idle", !.returned = "True"]
       ELSE notifier' = [notifier EXCEPT !.pc = "stats",
                                         !.data = subscribers_file.data]
    /\ UNCHANGED <<subscribers_file, bot, committed, increments, dashboardVars>>

\* update_notification_stats writes what it read, with the counter one higher
\* (lines 84-87), unless the open raises; the run returns True.
NotifierWritesStats ==
    /\ notifier.pc = "stats"
    /\ \E written \in BOOLEAN :
          IF written
          THEN /\ subscribers_file' =
                    [exists |-> TRUE, valid |-> TRUE,
                     data |-> [notifier.data EXCEPT
                                 !.stats.total_notifications_sent = @ + 1]]
               /\ increments' = increments + 1
          ELSE UNCHANGED <<subscribers_file, increments>>
    /\ notifier' = [notifier EXCEPT !.pc = "idle", !.returned = "True",
                                    !.data = NoSubscribers]
    /\ UNCHANGED <<bot, committed, dashboardVars>>

-----------------------------------------------------------------------------
(* Specifications *)

Init ==
    /\ pc = "idle"
    /\ env = NoEnv
    /\ curFile = NoFile
    /\ prevFile = NoFile
    /\ current_time = None
    /\ today = 1
    /\ runs = 0
    /\ returns = NoReturns
    /\ is_eligible_results = <<>>
    /\ status_changed_count = None
    /\ activity_log = NoLog
    /\ left = NoFile
    /\ passes = NoPasses
    /\ subscribers_file = MissingSubscribersFile
    /\ bot = BotIdle(0, "none")
    /\ notifier = NotifierIdle(0, "none")
    /\ committed = [chat_id \in ChatIds |-> "none"]
    /\ increments = 0

RunRetrieve == MainRetrieve(RunWords, RunWords)

RunCheckEligibility == MainCheckEligibility(RunWords, RunClock)

\* Any number of runs of main(), one after the other, over the small words.
Next ==
    \/ MainStartRemembering
    \/ RunRetrieve
    \/ MainKilledInRetrieve
    \/ MainValidate
    \/ RunCheckEligibility
    \/ MainUpdateStatusChangeDates
    \/ MainGenerate

Spec == Init /\ [][Next]_vars

\* The first run has GRAPH_API_KEY and queries the registry; the runs after it
\* have none and work, on the same day, on the file the run before left.
ClassifyStart ==
    /\ MainStart
    /\ env'.graph_api_key <=> (runs = 0)
    /\ today' = today

ClassifyRetrieve == MainRetrieve(Words, Words)

ClassifyCheckEligibility == MainCheckEligibility(Words, Clock)

\* Runs of main() over the classifier's words: checkEligibility works on a file
\* retrieveActiveIndexers has just written, and on one it has classified before.
NextClassify ==
    \/ ClassifyStart
    \/ ClassifyRetrieve
    \/ MainValidate
    \/ ClassifyCheckEligibility
    \/ MainUpdateStatusChangeDates
    \/ MainGenerate

SpecClassify == Init /\ [][NextClassify]_vars

CallsPass1 == CheckPass1(Words)

CallsPass2 == CheckPass2(Words)

CallsPass3 == CheckPass3(Clock)

\* The runs of SpecClassify with checkEligibility taken call by call.
NextCalls ==
    \/ ClassifyStart
    \/ ClassifyRetrieve
    \/ MainValidate
    \/ CheckLoads
    \/ CallsPass1
    \/ CallsPass2
    \/ CallsPass3
    \/ MainUpdateStatusChangeDates
    \/ MainGenerate

SpecCalls == Init /\ [][NextCalls]_vars

ScenarioRetrieve == MainRetrieve(ScenarioTimes, ScenarioPeriods)

ScenarioCheckEligibility == MainCheckEligibility(ScenarioTimes, ScenarioClock)

\* The same runs over the values of the reference scenario.
NextScenario ==
    \/ ClassifyStart
    \/ ScenarioRetrieve
    \/ MainValidate
    \/ ScenarioCheckEligibility
    \/ MainUpdateStatusChangeDates
    \/ MainGenerate

SpecScenario == Init /\ [][NextScenario]_vars

\* Each run after the first is on the next day; the three variables main()
\* requires come from one .env file and are set or missing together.
HistoryStart ==
    /\ MainStarts(MaxHistoryRuns, NoFile)
    /\ env'.api_key = env'.contract_address
    /\ env'.quicknode_url = env'.contract_address
    /\ today' = IF runs = 0 THEN today ELSE today + 1

HistoryRetrieve == MainRetrieve({MaxRunWord}, {MaxRunWord})

HistoryCheckEligibility == MainCheckEligibility(HistoryWords, HistoryClock)

\* A history of the two snapshot files: runs of main(), one a day, that end,
\* return early or are killed.
NextHistory ==
    \/ HistoryStart
    \/ HistoryRetrieve
    \/ MainKilledInRetrieve
    \/ MainValidate
    \/ HistoryCheckEligibility
    \/ MainUpdateStatusChangeDates
    \/ MainGenerate

SpecHistory == Init /\ [][NextHistory]_vars

\* The bot and the notifier start with no subscribers file or an empty one.
InitSubscribers ==
    /\ subscribers_file \in {MissingSubscribersFile, EmptySubscribersFile}
    /\ bot = BotIdle(0, "none")
    /\ notifier = NotifierIdle(0, "none")
    /\ committed = [chat_id \in ChatIds |-> "none"]
    /\ increments = 0

\* The dashboard generator has not run yet.
InitDashboard ==
    /\ pc = "idle"
    /\ env = NoEnv
    /\ curFile = NoFile
    /\ prevFile = NoFile
    /\ current_time = None
    /\ today = 1
    /\ runs = 0
    /\ returns = NoReturns
    /\ is_eligible_results = <<>>
    /\ status_changed_count = None
    /\ activity_log = NoLog
    /\ left = NoFile
    /\ passes = NoPasses

InitBot == InitDashboard /\ InitSubscribers

BotLoad == BotLoads(MaxBotCalls, ChatIds)

\* The bot alone: its handlers run one after the other (none of them awaits
\* between its load and its save).
NextBot ==
    \/ BotLoad
    \/ BotSaves

SpecBot == InitBot /\ [][NextBot]_vars

\* An activity log that lists one status change.
LogWithChange ==
    [exists |-> TRUE,
     status_changes |->
        <<[address |-> RegistryIds[1], previous_status |-> "eligible",
           new_status |-> "grace"]>>]

\* The generator has run once with GRAPH_API_KEY and without CONTRACT_ADDRESS:
\* retrieveActiveIndexers has written active_indexers.json and main() has
\* returned at the check of the required variables.
InitAfterRetrieval ==
    /\ pc = "returned_missing_vars"
    /\ env = NoEnv
    /\ curFile = FreshData(<<RegistryIds[1]>>, None, None)
    /\ prevFile = NoFile
    /\ current_time = None
    /\ today = 1
    /\ runs = 1
    /\ returns = [NoReturns EXCEPT !.retrieveActiveIndexers = "True"]
    /\ is_eligible_results = <<>>
    /\ status_changed_count = None
    /\ activity_log \in {NoLog, LogWithChange}
    /\ left = NoFile
    /\ passes = NoPasses

InitTelegram == (InitDashboard \/ InitAfterRetrieval) /\ InitSubscribers

NotifierStart == NotifierStarts(MaxNotifierRuns)

\* The bot process and the notifier process, each step of one between any two
\* steps of the other.
NextTelegram ==
    \/ BotLoad
    \/ BotSaves
    \/ NotifierStart
    \/ NotifierSends
    \/ NotifierReadsStats
    \/ NotifierWritesStats

SpecTelegram == InitTelegram /\ [][NextTelegram]_vars

-----------------------------------------------------------------------------
(* Properties of the classification (checkEligibility, Pass 1 to Pass 3) *)

\* checkEligibility has just classified the file and written it back.
AfterClassification == pc = "update" /\ curFile.exists /\ current_time # None

\* The records of the current file.
Records == {curFile.indexers[i] : i \in 1..Len(curFile.indexers)}

last_oracle_update_time == curFile.metadata.last_oracle_update_time

eligibility_period == curFile.metadata.eligibility_period

\* C1: when last_oracle_update_time is absent (None in the metadata), Pass 3
\* classifies every record as ineligible with an empty eligible_until, whatever
\* the renewal time, the eligibility period and the current time are.
C1_AbsentOracleTimeAllIneligible ==
    (AfterClassification /\ last_oracle_update_time = None)
        => \A r \in Records : r.status = "ineligible" /\ r.eligible_until = Blank

\* C2 (as stated): with last_oracle_update_time present, 0 included, a record is
\* eligible if and only if its renewal time equals last_oracle_update_time.
C2_EligibleIffRenewalEqualsOracleTime ==
    (AfterClassification /\ last_oracle_update_time # None)
        => \A r \in Records :
              (r.status = "eligible")
                  <=> (r.eligibility_renewal_time = last_oracle_update_time)

\* C2 (amended): with last_oracle_update_time present, a record is eligible if
\* and only if its renewal time equals last_oracle_update_time and that time is
\* not 0; with last_oracle_update_time = 0 no record is eligible.
C2_EligibleIffRenewalEqualsNonZeroOracleTime ==
    (AfterClassification /\ last_oracle_update_time # None)
        => \A r \in Records :
              (r.status = "eligible")
                  <=> (/\ r.eligibility_renewal_time = last_oracle_update_time
                       /\ last_oracle_update_time # 0)

\* C2 witness: a classified file with the oracle time present, one record
\* eligible and another, with a different renewal time, not eligible.
C2_Witness ==
    /\ AfterClassification
    /\ last_oracle_update_time # None
    /\ \E r1, r2 \in Records :
          /\ r1.status = "eligible"
          /\ r2.is_eligible
          /\ r2.eligibility_renewal_time # last_oracle_update_time
          /\ r2.status # "eligible"

\* C3: every record with status grace has a renewal time > 0 that differs from
\* last_oracle_update_time, and the current time is before renewal time +
\* eligibility period (the period being present).
C3_GraceImpliesInsideWindow ==
    AfterClassification
        => \A r \in Records :
              r.status = "grace"
                  => /\ r.eligibility_renewal_time > 0
                     /\ r.eligibility_renewal_time # last_oracle_update_time
                     /\ eligibility_period # None
                     /\ current_time < r.eligibility_renewal_time + eligibility_period

\* C3 witness: a record in grace one second before its window closes.
C3_Witness ==
    /\ AfterClassification
    /\ last_oracle_update_time # None
    /\ \E r \in Records :
          /\ r.status = "grace"
          /\ current_time + 1 = r.eligibility_renewal_time + eligibility_period

\* The premise of C4 and C5: the oracle time is present and differs from the
\* record's renewal time, which is > 0, and the eligibility period is present.
GraceCandidate(r) ==
    /\ last_oracle_update_time # None
    /\ r.eligibility_renewal_time # last_oracle_update_time
    /\ r.eligibility_renewal_time > 0
    /\ eligibility_period # None

\* C4: a record whose renewal time is > 0 and differs from a present
\* last_oracle_update_time, with the eligibility period present (0 included) and
\* the current time before renewal time + period, is in grace with
\* eligible_until = renewal time + period.
C4_InsideWindowIsGrace ==
    AfterClassification
        => \A r \in Records :
              (GraceCandidate(r)
                  /\ current_time < r.eligibility_renewal_time + eligibility_period)
                  => /\ r.status = "grace"
                     /\ r.eligible_until = r.eligibility_renewal_time + eligibility_period

\* C5: the grace boundary is strict: at current time = renewal time + period
\* the record is ineligible, one second earlier it is in grace.
C5_StrictGraceBoundary ==
    AfterClassification
        => \A r \in Records :
              GraceCandidate(r)
                  => /\ (current_time = r.eligibility_renewal_time + eligibility_period)
                            => r.status = "ineligible"
                     /\ (current_time = r.eligibility_renewal_time + eligibility_period - 1)
                            => r.status = "grace"

\* C6 (as stated): a record whose renewal time equals last_oracle_update_time is
\* eligible, whatever the eligibility period and the current time are.
C6_RenewalEqualsOracleTimeIsEligible ==
    (AfterClassification /\ last_oracle_update_time # None)
        => \A r \in Records :
              r.eligibility_renewal_time = last_oracle_update_time
                  => r.status = "eligible"

\* C6 (amended): a record whose renewal time equals a non-zero
\* last_oracle_update_time is eligible, whatever the eligibility period (positive,
\* 0 or absent) and the current time are; when both are 0 it is ineligible.
C6_RenewalEqualsNonZeroOracleTimeIsEligible ==
    (AfterClassification /\ last_oracle_update_time # None)
        => \A r \in Records :
              r.eligibility_renewal_time = last_oracle_update_time
                  => r.status = IF last_oracle_update_time # 0
                                THEN "eligible" ELSE "ineligible"

\* C6 witness: an eligible record although the eligibility period is absent or
\* 0 and the current time is past the renewal time.
C6_Witness ==
    /\ AfterClassification
    /\ eligibility_period \in {None, 0}
    /\ \E r \in Records :
          /\ r.status = "eligible"
          /\ r.eligibility_renewal_time = last_oracle_update_time
          /\ current_time > r.eligibility_renewal_time

\* C7: a record whose is_eligible is false after Pass 1 has renewal time 0 and is
\* neither eligible nor in grace, whatever last_oracle_update_time (0 included),
\* the eligibility period and the current time are.
C7_NotEligibleIsNeverEligibleNorGrace ==
    AfterClassification
        => \A r \in Records :
              ~r.is_eligible
                  => /\ r.eligibility_renewal_time = 0
                     /\ r.status \notin {"eligible", "grace"}

\* C7 witness: a record with is_eligible false classified under an oracle time
\* of 0, with a period that would leave the current time inside a window.
C7_Witness ==
    /\ AfterClassification
    /\ last_oracle_update_time = 0
    /\ eligibility_period # None
    /\ current_time < eligibility_period
    /\ \E r \in Records : ~r.is_eligible /\ r.status = "ineligible"

\* C8: eligible_until is populated if and only if the status is grace.
C8_EligibleUntilIffGrace ==
    AfterClassification
        => \A r \in Records : (r.eligible_until # Blank) <=> (r.status = "grace")

\* C8 witness: a file with a record in grace, its eligible_until set, and a
\* record that is not, classified by a run that found the file classified.
C8_Witness ==
    /\ AfterClassification
    /\ runs > 1
    /\ \E r1, r2 \in Records :
          /\ r1.status = "grace" /\ r1.eligible_until > 0
          /\ r2.status # "grace" /\ r2.eligible_until = Blank

\* C9: when a run of main() has ended, by an early return or normally, every
\* record of the current file has a status in {eligible, grace, ineligible}.
C9_EndedRunLeavesClassifiedFile ==
    (pc \in Ended /\ curFile.exists)
        => \A r \in Records : r.status \in Statuses

\* C10: the reference scenario: last_oracle_update_time = 1700000000,
\* eligibility_period = 86400, current time = 1700010000; renewal time
\* 1700000000 is eligible, 1699950000 is in grace until 1700036400, 1699000000
\* is ineligible.
C10_ReferenceScenario ==
    (/\ AfterClassification
     /\ last_oracle_update_time = 1700000000
     /\ eligibility_period = 86400
     /\ current_time = 1700010000)
        => \A r \in Records :
              /\ r.eligibility_renewal_time = 1700000000 => r.status = "eligible"
              /\ r.eligibility_renewal_time = 1699950000
                    => r.status = "grace" /\ r.eligible_until = 1700036400
              /\ r.eligibility_renewal_time = 1699000000 => r.status = "ineligible"

\* C10 witness: the scenario with indexer B (in grace) and indexer C (its
\* window over) in one file.
C10_Witness ==
    /\ AfterClassification
    /\ last_oracle_update_time = 1700000000
    /\ eligibility_period = 86400
    /\ current_time = 1700010000
    /\ \E r1, r2 \in Records :
          /\ r1.eligibility_renewal_time = 1699950000 /\ r1.status = "grace"
          /\ r2.eligibility_renewal_time = 1699000000 /\ r2.status = "ineligible"

-----------------------------------------------------------------------------
(* Properties of the comparison with the previous run                      *)
(* (updateStatusChangeDates) and of the two snapshot files                 *)

\* updateStatusChangeDates has just compared the two files and written the
\* current one back.
Compared == pc = "generate" /\ returns.updateStatusChangeDates = "True"

\* The record's address is a key of previous_indexers_map.
InPrevious(r) == prevFile.exists /\ PrevIndex(prevFile, Lower(r.address)) # {}

\* previous_indexers_map[address] of a record that is in the map.
previous_indexer(r) ==
    prevFile.indexers[CHOOSE i \in PrevIndex(prevFile, Lower(r.address)) : TRUE]

\* The entries of the list the notifier reads with
\* activity_log.get("status_changes", []) that describe one change.
Emitted(address, previous_status, new_status) ==
    {k \in 1..Len(activity_log.status_changes) :
        activity_log.status_changes[k] =
            [address |-> address, previous_status |-> previous_status,
             new_status |-> new_status]}

\* C11: after the comparison, every record that is in both files with another
\* status than in the previous file has today's date as its
\* last_status_change_date, and the change-set the notifier consumes holds
\* exactly one StatusChange {address, previous status, new status} for it.
C11_ChangeEmittedOnceAndDated ==
    Compared =>
        \A r \in Records :
            (InPrevious(r) /\ r.status # previous_indexer(r).status) =>
                /\ r.last_status_change_date = today
                /\ Cardinality(Emitted(r.address, previous_indexer(r).status,
                                       r.status)) = 1

\* The records of the current file that are in the previous file with another
\* status.
ChangedRecords ==
    {r \in Records : InPrevious(r) /\ r.status # previous_indexer(r).status}

\* C12: after the comparison, every record that is in both files with the same
\* status has the previous record's last_status_change_date, whatever today's
\* date is, and is not counted as a change: status_changed_count is the number
\* of records whose status differs.
C12_SameStatusKeepsPreviousDate ==
    Compared =>
        /\ \A r \in Records :
              (InPrevious(r) /\ r.status = previous_indexer(r).status) =>
                  r.last_status_change_date
                      = previous_indexer(r).last_status_change_date
        /\ status_changed_count = Cardinality(ChangedRecords)

\* C12 witness: a record keeps, with its status, a date stamped on an earlier
\* day.
C12_Witness ==
    /\ Compared
    /\ \E r \in Records :
          /\ InPrevious(r)
          /\ r.status = previous_indexer(r).status
          /\ previous_indexer(r).last_status_change_date # Blank
          /\ previous_indexer(r).last_status_change_date # today
          /\ r.last_status_change_date = previous_indexer(r).last_status_change_date

\* C13: when updateStatusChangeDates has been called on a current file with
\* indexers and there is no previous file, it has returned True, counted no
\* status change and left every last_status_change_date empty; and whenever
\* it has compared, a record whose address is not in the previous file has an
\* empty date and is not among the changes counted.
C13_NoPreviousRecordMeansEmptyDateAndNoChange ==
    /\ (/\ pc = "generate"
        /\ curFile.exists /\ Len(curFile.indexers) > 0
        /\ ~prevFile.exists)
          => /\ returns.updateStatusChangeDates = "True"
             /\ status_changed_count = 0
             /\ \A r \in Records : r.last_status_change_date = Blank
    /\ Compared =>
          /\ \A r \in Records :
                ~InPrevious(r) => r.last_status_change_date = Blank
          /\ status_changed_count
                <= Cardinality({r \in Records : InPrevious(r)})

\* C13 witness: the previous file exists and on a later day the current file
\* has an address it does not list, next to one whose status has changed.
C13_Witness ==
    /\ Compared
    /\ prevFile.exists
    /\ status_changed_count = 1
    /\ \E r1, r2 \in Records :
          /\ ~InPrevious(r1) /\ r1.last_status_change_date = Blank
          /\ InPrevious(r2) /\ r2.last_status_change_date = today

C15_ArchiveBeforeOverwrite ==
    [][(/\ pc = "retrieve"
        /\ curFile.exists /\ curFile # Torn
        /\ curFile' # curFile)
          => prevFile' = curFile]_vars

\* C16: when a run is killed in the backup-then-write lines of the retrieval,
\* the two files are not left holding the same data, and the snapshot that was
\* current when the run started (the one the next comparison needs) is still
\* in one of the two files.
C16_InterruptionKeepsBothSnapshots ==
    [][(pc = "retrieve" /\ pc' = "killed")
          => /\ ~(curFile'.exists /\ prevFile' = curFile')
             /\ (curFile.exists /\ curFile # Torn)
                    => (curFile' = curFile \/ prevFile' = curFile)]_vars

\* C17: in every run that goes on to updateStatusChangeDates, whether its
\* retrieval is made, skipped or fails, the previous file is, from the
\* retrieval step on, the current file as the run before left it (the current
\* file the run found when it started); nothing writes the previous file
\* between that step and the comparison.
C17_PreviousIsWhatThePrecedingRunLeft ==
    [][(/\ pc = "retrieve" /\ pc' = "validate"
        /\ env.indexers_txt
        /\ env.contract_address /\ env.api_key /\ env.quicknode_url)
          => prevFile' = curFile]_vars

\* C18: once retrieveActiveIndexers has returned False in a run (the registry
\* gave no addresses: empty result, GraphQL error or failed request), no
\* later step of that run writes the current or the previous file.
C18_RegistryFailureWritesNothing ==
    [][returns.retrieveActiveIndexers = "False"
          => UNCHANGED <<curFile, prevFile>>]_vars

\* C19: whenever checkEligibility has classified, the last_oracle_update_time
\* and the eligibility_period it used (the metadata of the current file) were
\* written by the retrieval of the same run, from that run's two contract
\* reads (None for a read that failed), and not by an earlier run.
C19_ClassifierUsesThisRunsContractReads ==
    AfterClassification => returns.retrieveActiveIndexers = "True"

-----------------------------------------------------------------------------
(* Properties of the contract calls of checkEligibility *)

\* C20: when checkEligibility has been called on a current file with indexers,
\* it has returned True and has an isEligible answer and a status for every
\* record; a record whose isEligible call raised or returned an empty result
\* has is_eligible false, and every other record has the is_eligible its own
\* answer gives.
C20_FailedIsEligibleCallFailsClosed ==
    (pc = "update" /\ curFile.exists /\ Len(curFile.indexers) > 0) =>
        /\ returns.checkEligibility = "True"
        /\ DOMAIN is_eligible_results = 1..Len(curFile.indexers)
        /\ \A i \in 1..Len(curFile.indexers) :
              /\ is_eligible_results[i].kind \in {"exc", "empty"}
                    => ~curFile.indexers[i].is_eligible
              /\ is_eligible_results[i].kind = "word"
                    => (curFile.indexers[i].is_eligible
                            <=> is_eligible_results[i].word # 0)
              /\ curFile.indexers[i].status \in Statuses

\* C20 witness: the first record's call raised, the second record's call was
\* still made and answered true, and the second record is classified eligible.
C20_Witness ==
    /\ AfterClassification
    /\ returns.checkEligibility = "True"
    /\ Len(curFile.indexers) = 2
    /\ is_eligible_results[1].kind = "exc"
    /\ ~curFile.indexers[1].is_eligible
    /\ curFile.indexers[1].status = "ineligible"
    /\ is_eligible_results[2].kind = "word"
    /\ curFile.indexers[2].is_eligible
    /\ curFile.indexers[2].status = "eligible"

-----------------------------------------------------------------------------
(* Properties of the notifier and of the bot *)

\* The loop of send_notifications_async over the subscribers has ended.
LoopEnded ==
    notifier.pc = "sending" /\ notifier.i > Len(notifier.subscribers)

\* The positions of the loaded subscribers that have a chat_id.
WithChatId ==
    {i \in 1..Len(notifier.subscribers) : notifier.subscribers[i].chat_id # 0}

\* C21: when the loop of send_notifications_async ends, a delivery has been
\* attempted for every loaded subscriber that has a chat_id, whatever failed
\* for the subscribers before it, and success_count + fail_count is the
\* number of those subscribers.
C21_EverySubscriberAttemptedAndCountedOnce ==
    LoopEnded =>
        /\ notifier.attempted = {notifier.subscribers[i].chat_id : i \in WithChatId}
        /\ notifier.success_count + notifier.fail_count = Cardinality(WithChatId)

\* C22: wherever the three counts are derived from a snapshot, they add up to
\* the number of its records: in the summary of checkEligibility, in the
\* counters of the dashboard, and in the notifier's message, which is built
\* from the file a run of main() has left.
C22_CountsAddUpToTheNumberOfRecords ==
    /\ AfterClassification
          => StatusCountsSum(curFile.indexers) = Len(curFile.indexers)
    /\ pc = "generate"
          => StatusCountsSum(renderIndexerTable(curFile))
                = Len(renderIndexerTable(curFile))
    /\ (pc \in Ended /\ IndexersLoaded)
          => StatusCountsSum(curFile.indexers) = Len(curFile.indexers)

\* The record an address had in the current file as the run before left it.
InLeft(r) == left.exists /\ PrevIndex(left, Lower(r.address)) # {}

left_indexer(r) ==
    left.indexers[CHOOSE i \in PrevIndex(left, Lower(r.address)) : TRUE]

\* C23: in a run that read the registry, the comparison gives every record
\* whose address the run before had classified too the date of the most recent
\* run in which its status changed: today's date when its status differs from
\* the status the run before left it, and otherwise the date it had then.
C23_DateIsTheRunOfTheLastStatusChange ==
    [][(/\ pc = "update"
        /\ returns.retrieveActiveIndexers = "True"
        /\ returns'.updateStatusChangeDates = "True")
          => \A i \in 1..Len(curFile'.indexers) :
                LET r == curFile'.indexers[i]
                IN  (InLeft(r) /\ left_indexer(r).status \in Statuses) =>
                        r.last_status_change_date
                            = IF r.status # left_indexer(r).status
                              THEN today
                              ELSE left_indexer(r).last_status_change_date]_vars

-----------------------------------------------------------------------------
(* Properties of the records a run produces *)

\* The isEligible call of record i returned a non-zero word in this run.
ReturnedNonZero(i) ==
    is_eligible_results[i].kind = "word" /\ is_eligible_results[i].word # 0

\* checkEligibility has classified and written the current file in this run.
Produced == pc = "update" /\ returns.checkEligibility = "True"

\* C24 as stated: in every record the run has produced, in the current file
\* and as renderIndexerTable hands it to the dashboard, is_eligible is true
\* exactly when the record's isEligible call returned a non-zero word.
C24_IsEligibleIsTheContractsAnswerEverywhere ==
    Produced =>
        \A i \in 1..Len(curFile.indexers) :
            /\ curFile.indexers[i].is_eligible <=> ReturnedNonZero(i)
            /\ renderIndexerTable(curFile)[i].is_eligible <=> ReturnedNonZero(i)

\* C24: in every record the run has produced, the current file's is_eligible
\* is true exactly when the record's isEligible call returned a non-zero word;
\* in the copy renderIndexerTable hands to the dashboard, is_eligible is true
\* exactly when, besides, the record's status is eligible or grace.
C24_PersistedIsTheAnswerRenderedFollowsStatus ==
    Produced =>
        \A i \in 1..Len(curFile.indexers) :
            /\ curFile.indexers[i].is_eligible <=> ReturnedNonZero(i)
            /\ renderIndexerTable(curFile)[i].is_eligible
                  <=> (/\ ReturnedNonZero(i)
                       /\ curFile.indexers[i].status \in {"eligible", "grace"})

\* C24 witness: a record whose call returned a non-zero word and whose grace
\* window has closed is persisted with is_eligible true and handed to the
\* dashboard with is_eligible false.
C24_Witness ==
    /\ Produced
    /\ \E i \in 1..Len(curFile.indexers) :
          /\ ReturnedNonZero(i)
          /\ curFile.indexers[i].is_eligible
          /\ curFile.indexers[i].status = "ineligible"
          /\ ~renderIndexerTable(curFile)[i].is_eligible

\* The records for which checkEligibility has issued a call of fn so far.
Called(fn) ==
    {passes.calls[k].i : k \in {j \in DOMAIN passes.calls : passes.calls[j].fn = fn}}

\* Pass 2 has dealt with record i.
PastPass2(i) == passes.pass = 3 \/ (passes.pass = 2 /\ i < passes.i)

\* C25: while checkEligibility runs, every getEligibilityRenewalTime call it
\* has issued comes after the isEligible call of every address and is for a
\* record whose is_eligible is true; a record whose is_eligible is false gets
\* no such call, and has eligibility_renewal_time 0 once Pass 2 has dealt
\* with it.
C25_RenewalCallsAfterPass1AndOnlyForTheEligible ==
    passes.pass > 0 =>
        /\ \A k \in DOMAIN passes.calls :
              passes.calls[k].fn = "getEligibilityRenewalTime" =>
                  /\ \A i \in 1..Len(passes.indexers) :
                        passes.indexers[i].address # "" =>
                            \E j \in 1..(k - 1) :
                                passes.calls[j] = [fn |-> "isEligible", i |-> i]
                  /\ passes.indexers[passes.calls[k].i].is_eligible
        /\ \A i \in 1..Len(passes.indexers) :
              ~passes.indexers[i].is_eligible =>
                  /\ passes.pass >= 2 => i \notin Called("getEligibilityRenewalTime")
                  /\ PastPass2(i) => passes.indexers[i].eligibility_renewal_time = 0

\* C25 witness: Pass 2 has ended with a renewal-time call for one record and
\* none for another, whose isEligible call raised and whose renewal time, set
\* by an earlier run, is now 0.
C25_Witness ==
    /\ passes.pass = 3
    /\ \E i, j \in 1..Len(passes.indexers) :
          /\ i \in Called("getEligibilityRenewalTime")
          /\ j \notin Called("getEligibilityRenewalTime")
          /\ passes.elig[j].kind = "exc"
          /\ curFile.indexers[j].eligibility_renewal_time > 0
          /\ passes.indexers[j].eligibility_renewal_time = 0

\* A record with its last_status_change_date taken away.
WithoutDate(rec) == [rec EXCEPT !.last_status_change_date = Blank]

\* C26: the call of updateStatusChangeDates changes nothing but
\* last_status_change_date: the previous file, the metadata of the current
\* file, the number and order of its records and, in every record, address,
\* is_eligible, status, eligible_until, eligible_until_readable and
\* eligibility_renewal_time are after the call what they were before it.
C26_OnlyTheDateIsWritten ==
    [][pc = "update" =>
          /\ prevFile' = prevFile
          /\ curFile'.exists = curFile.exists
          /\ curFile'.metadata = curFile.metadata
          /\ Len(curFile'.indexers) = Len(curFile.indexers)
          /\ \A i \in 1..Len(curFile.indexers) :
                WithoutDate(curFile'.indexers[i]) = WithoutDate(curFile.indexers[i])]_vars

\* C26 witness: the comparison has stamped today's date on a record whose call
\* answered true and whose status differs from the previous file's, where the
\* record was ineligible.
C26_Witness ==
    /\ Compared
    /\ \E r \in Records :
          /\ InPrevious(r)
          /\ previous_indexer(r).status = "ineligible"
          /\ r.status = "eligible"
          /\ r.is_eligible
          /\ r.last_status_change_date = today
          /\ previous_indexer(r).last_status_change_date # today

\* What the bot reads from subscribers_telegram.json as it is now.
Subscribers == bot_load_subscribers(subscribers_file).subscribers

\* C27: whatever add_subscriber and remove_subscriber calls have been made on
\* a subscribers file that was empty or missing, stats.total_subscribers is
\* the number of records whose active flag is true.
C27_TotalSubscribersCountsTheActive ==
    bot_load_subscribers(subscribers_file).stats.total_subscribers
        = ActiveCount(Subscribers)

\* C27 witness: after a subscription of each chat and an unsubscription, the
\* file holds an active and an inactive record and a total of 1.
C27_Witness ==
    /\ bot.pc = "idle"
    /\ subscribers_file.valid
    /\ Len(Subscribers) = 2
    /\ ActiveCount(Subscribers) = 1
    /\ subscribers_file.data.stats.total_subscribers = 1

\* No two records of the sequence have the same chat_id.
OneRecordPerChat(subscribers) ==
    \A i, j \in 1..Len(subscribers) :
        subscribers[i].chat_id = subscribers[j].chat_id => i = j

\* C28: the file never holds two records with the same chat_id. An
\* add_subscriber for a chat_id whose record is active returns False and
\* leaves the file as it is; an add_subscriber for a chat_id whose record is
\* inactive returns True and saves the same records, none appended, with that
\* record active.
C28_OneRecordPerChatAndResubscribeReactivates ==
    [][/\ OneRecordPerChat(bot_load_subscribers(subscribers_file').subscribers)
       /\ (bot.pc = "loaded" /\ bot.op = "add_subscriber") =>
             LET i == FirstRecord(bot.data.subscribers, bot.chat_id) IN
             /\ (i # 0 /\ bot.data.subscribers[i].active) =>
                   /\ bot'.returned = "False"
                   /\ subscribers_file' = subscribers_file
             /\ (i # 0 /\ ~bot.data.subscribers[i].active) =>
                   /\ bot'.returned = "True"
                   /\ Len(bot_load_subscribers(subscribers_file').subscribers)
                         = Len(bot.data.subscribers)
                   /\ subscribers_file' # subscribers_file =>
                         bot_load_subscribers(subscribers_file').subscribers
                             = [bot.data.subscribers EXCEPT ![i].active = TRUE]]_vars

\* C28 witness: add_subscriber has loaded a file in which the chat's record,
\* saved by an earlier subscription, was made inactive by an unsubscription.
C28_Witness ==
    /\ bot.pc = "loaded"
    /\ bot.op = "add_subscriber"
    /\ committed[bot.chat_id] = "remove_subscriber"
    /\ FirstRecord(bot.data.subscribers, bot.chat_id) # 0
    /\ ~bot.data.subscribers[FirstRecord(bot.data.subscribers, bot.chat_id)].active

\* The chat_ids of the records of a sequence.
ChatIdsOf(subscribers) == {subscribers[k].chat_id : k \in 1..Len(subscribers)}

\* C29: a run of the notifier sends only to the chat_ids of the records it
\* loaded, and the records it loads hold no chat_id whose last saved call is
\* a remove_subscriber.
C29_NoMessageAfterUnsubscribing ==
    [][/\ notifier'.attempted \subseteq ChatIdsOf(notifier'.subscribers)
       /\ (notifier.pc = "idle" /\ notifier'.pc = "sending") =>
             \A c \in ChatIdsOf(notifier'.subscribers) :
                 committed[c] # "remove_subscriber"]_vars

\* The chat has an active record in the file.
ActiveInFile(c) ==
    \E i \in 1..Len(Subscribers) :
        Subscribers[i].chat_id = c /\ Subscribers[i].active

\* C30: however the calls of the bot and the runs of the notifier interleave,
\* the file holds every saved update: a chat_id whose last saved call is
\* add_subscriber has an active record, one whose last saved call is
\* remove_subscriber has none, and total_notifications_sent is the number of
\* times update_notification_stats has written its increment.
C30_NoSavedUpdateIsLost ==
    /\ \A c \in ChatIds :
          /\ committed[c] = "add_subscriber" => ActiveInFile(c)
          /\ committed[c] = "remove_subscriber" => ~ActiveInFile(c)
    /\ bot_load_subscribers(subscribers_file).stats.total_notifications_sent
          = increments

====
